---- MODULE Spec2Model ----
(***************************************************************************)
(* Model of the hooks, publish plugins and path tools of OpenPype / Pype:   *)
(*   - CopyLastPublishedWorkfile.execute                                    *)
(*       (openpype/hooks/pre_copy_last_published_workfile.py)               *)
(*   - download_last_workfile (openpype/hosts/blender/api/lib.py)           *)
(*   - PreSetWorkfilePublishTime.execute                                    *)
(*       (openpype/hosts/blender/hooks/pre_set_current_time_to_workfile.py) *)
(*   - ValidateRenderedFrames.process                                       *)
(*       (pype/plugins/nuke/publish/validate_rendered_frames.py)            *)
(*   - IntegrateKitsuNote.process, IntegrateKitsuReview.process             *)
(*       (openpype/modules/kitsu/plugins/publish)                           *)
(*   - version_up, get_last_version_from_path (pype/lib/path_tools.py)      *)
(*   - ExtractThumbnail.process                                             *)
(*       (openpype/hosts/blender/plugins/publish/extract_thumbnail.py)      *)
(* The asset database, the settings and the sync server are external: the  *)
(* answers they give to the queries of one call are inputs of that call.   *)
(***************************************************************************)
EXTENDS Integers, Sequences, FiniteSets, TLC

VARIABLES
    pc,                          \* "ready": inputs drawn, "done": the call ended
    op,                          \* which entry point this run calls
    data,                        \* self.data, the launch context bag
    entry_data,                  \* self.data as it was on entry
    use_last_published_workfile, \* value of the setting in the matched profile
    subsets,                     \* answer of get_subsets for the asset
    has_last_version,            \* does get_last_version_by_subset_id answer a doc
    representations,             \* answer of get_representations
    disk,                        \* paths that exist on disk
    sync_server,                 \* ModulesManager().get("sync_server")
    downloaded,                  \* what download_last_published_workfile returns
    launch_args,                 \* self.launch_context.launch_args
    entry_args,                  \* launch_args as they were on entry
    instance,                    \* instance.data / context.data / the arguments
    entry_instance,              \* instance as it was on entry
    settings,                    \* the plugin's configured attributes
    world,                       \* what lies outside: files, the Kitsu server
    result                       \* outcome of the call

vars == <<pc, op, data, entry_data, use_last_published_workfile, subsets,
          has_last_version, representations, disk, sync_server, downloaded,
          launch_args, entry_args, instance, entry_instance, settings, world,
          result>>

\* the variables of the publish plugins and of the path tools
plugin_vars == <<instance, entry_instance, settings, world>>

\* the variables of the launch hooks and of download_last_workfile
launch_vars == <<data, entry_data, use_last_published_workfile, subsets,
                 has_last_version, representations, disk, sync_server,
                 downloaded, launch_args, entry_args>>

----------------------------------------------------------------------------
(* Bounds *)

MaxSubsets == 2
MaxRepres == 2
MaxArgs == 3

----------------------------------------------------------------------------
(* Values *)

\* Python's None, for values that are otherwise strings
NoneVal == "None"

\* Paths are records so that distinct paths stay distinct; NonePath is None
NonePath == [root |-> "None", n |-> 0]
WorkPath == [root |-> "work", n |-> 1]
OldSourcePath == [root |-> "publish", n |-> 0]
LocalPath == [root |-> "local", n |-> 1]
PublishedPath(repre) == [root |-> "publish", n |-> repre._id]

\* A subset id of None
NoneId == 0

\* Names are sequences of characters
LowerChar(c) ==
    CASE c = "A" -> "a"
      [] c = "B" -> "b"
      [] c = "C" -> "c"
      [] OTHER -> c

\* str.lower()
Lower(s) == [i \in 1..Len(s) |-> LowerChar(s[i])]

\* Python's `needle in hay` for strings
Contains(hay, needle) ==
    \E i \in 0..(Len(hay) - Len(needle)) :
        SubSeq(hay, i + 1, i + Len(needle)) = needle

TaskNames == { <<"A", "b">>, <<"c">> }

\* The subset documents an asset may have: name, data.family, data.families
SubsetDocs ==
    { [name |-> <<"w", "A", "B">>, family |-> "workfile", families |-> {}],
      [name |-> <<"a", "b", "C">>, family |-> "workfile", families |-> {}],
      [name |-> <<"w">>, family |-> NoneVal, families |-> {"workfile"}],
      [name |-> <<"r", "A", "b">>, family |-> "render", families |-> {}] }

SeqsUpTo(S, n) == UNION { [1..k -> S] : k \in 0..n }

\* get_subsets answers documents with distinct names; the _id is the position
SubsetLists ==
    { [i \in 1..Len(l) |-> [_id |-> i, name |-> l[i].name,
                            family |-> l[i].family, families |-> l[i].families]] :
        l \in { s \in SeqsUpTo(SubsetDocs, MaxSubsets) :
                  \A i, j \in 1..Len(s) : i # j => s[i] # s[j] } }

\* get_representations answers documents with context.task.name and
\* context.version (0 when the context has no version)
RepreLists(tasks, versions) ==
    { [i \in 1..Len(l) |-> [_id |-> i, task |-> l[i][1], version |-> l[i][2]]] :
        l \in SeqsUpTo(tasks \X versions, MaxRepres) }

----------------------------------------------------------------------------
(* Outcome of a call *)

NoResult ==
    [outcome |-> "none", exc |-> NoneVal, exit |-> "none", calls |-> <<>>,
     reached |-> {}, subset_id |-> NoneId, repre_id |-> 0,
     ret_path |-> NonePath, data |-> [task_name |-> <<>>,
                                      last_workfile_path |-> NonePath,
                                      source_filepath |-> NonePath]]

Returned(exit, calls, reached, d) ==
    [NoResult EXCEPT !.outcome = "returned", !.exit = exit, !.calls = calls,
                     !.reached = reached, !.data = d]

Raised(exc, exit, calls, reached, d) ==
    [NoResult EXCEPT !.outcome = "raised", !.exc = exc, !.exit = exit,
                     !.calls = calls, !.reached = reached, !.data = d]

----------------------------------------------------------------------------
(* CopyLastPublishedWorkfile (pre_copy_last_published_workfile.py) *)

\* Names bound at module level of the hook's file (its imports and its class)
HookModuleNames ==
    { "os", "shutil", "sleep", "get_last_version_by_subset_id",
      "get_representations", "get_subsets", "get_linked_representation_id",
      "PreLaunchHook", "get_local_site_id", "filter_profiles",
      "get_representation_path", "get_template_data_with_names",
      "get_workfile_template_key", "get_project_settings",
      "download_last_published_workfile", "get_subset_id",
      "CopyLastPublishedWorkfile" }

\* The existence check inverted
os_path_exists_Inverted(path, dsk) == path \notin dsk

os_path_exists(path, dsk) == path \in dsk

\* family == "workfile" or "workfile" in families
IsWorkfileSubset(subset) ==
    subset.family = "workfile" \/ "workfile" \in subset.families

FilteredSubsets(subs) == SelectSeq(subs, IsWorkfileSubset)

\* The `is None` test of the setting
SettingIsNone(setting) == setting = "None"

\* The `is False` branch never taken
SettingIsFalse_Never(setting) == FALSE

\* The `is False` test of the setting
SettingIsFalse(setting) == setting = "False"

\* indexes of the subsets whose lower-cased name contains the lower-cased task name
MatchingIndexes(filtered, task_name) ==
    { i \in 1..Len(filtered) :
        Contains(Lower(filtered[i].name), Lower(task_name)) }

Min(S) == CHOOSE x \in S : \A y \in S : x <= y
Max(S) == CHOOSE x \in S : \A y \in S : x >= y

\* The hook's matching: only when there is more than one subset, the first
\* subset that matches (break); None otherwise
HookMatchSubset(filtered, task_name) ==
    IF Len(filtered) > 1 /\ MatchingIndexes(filtered, task_name) # {}
    THEN filtered[Min(MatchingIndexes(filtered, task_name))]._id
    ELSE NoneId

\* next(repre for repre in ... if context.task.name == task_name, None):
\* the index of the first such representation, 0 for None
HookWorkfileRepresentation(repres, task_name) ==
    IF \E i \in 1..Len(repres) : repres[i].task = task_name
    THEN Min({ i \in 1..Len(repres) : repres[i].task = task_name })
    ELSE 0

\* Lines 265-313, which follow the unconditional return: tag the representation
\* for download, wait until it is on the local site, copy it, substitute
HookSyncAndCopy(d, calls, reached, repre, dl) ==
    LET calls1 == calls \o <<"get_local_site_id", "get_linked_representation_id">>
        reached1 == reached \cup {"local_site_id", "add_site"}
    IN  IF "sync_server" \notin HookModuleNames
        THEN Raised("NameError", "add_site", calls1, reached1, d)
        ELSE Returned("copied",
                      calls1 \o <<"add_site", "is_representation_on_site",
                                  "get_representation_path", "shutil.copy">>,
                      reached1 \cup {"poll", "copy", "source_filepath_legacy"},
                      [d EXCEPT !.last_workfile_path = dl,
                                !.source_filepath = PublishedPath(repre)])

\* The hook with lines 169-192 replaced by the code that follows them
HookSubstitute_Legacy(d, calls, reached, repre, dl) ==
    HookSyncAndCopy(d, calls, reached, repre, dl)

\* Lines 169-192: resolve the published path, download, substitute, return
HookSubstitute(d, calls, reached, repre, dl) ==
    IF "get_last_published_workfile_path" \notin HookModuleNames
    THEN Raised("NameError", "published_path", calls,
                reached \cup {"published_path"}, d)
    ELSE Returned("substituted",
                  calls \o <<"get_last_published_workfile_path",
                             "download_last_published_workfile">>,
                  reached \cup {"published_path", "download",
                                "source_filepath", "return"},
                  [d EXCEPT !.last_workfile_path = dl,
                            !.source_filepath = PublishedPath(repre)])

\* Lines 143-167, then the substitution
HookFromVersion(d, subset_id, calls, reached, has_ver, repres, dl) ==
    LET calls1 == Append(calls, "get_last_version_by_subset_id")
        reached1 == reached \cup {"last_version"}
    IN  IF ~has_ver
        THEN [Returned("no_version", calls1, reached1, d)
                EXCEPT !.subset_id = subset_id]
        ELSE LET calls2 == Append(calls1, "get_representations")
                 reached2 == reached1 \cup {"representation"}
                 r == HookWorkfileRepresentation(repres, d.task_name)
             IN  IF r = 0
                 THEN [Returned("no_representation", calls2, reached2, d)
                         EXCEPT !.subset_id = subset_id]
                 ELSE [HookSubstitute(d, calls2, reached2, repres[r], dl)
                         EXCEPT !.subset_id = subset_id, !.repre_id = repres[r]._id]

\* Lines 57-141, then the version and representation lookup
HookFromSettings(d, setting, subs, has_ver, repres, dl) ==
    LET calls1 == <<"get_project_settings", "filter_profiles">>
        reached1 == {"exists", "settings"}
    IN  IF SettingIsNone(setting)
        THEN Returned("settings_missing", calls1, reached1, d)
        ELSE IF SettingIsFalse(setting)
        THEN Returned("settings_off", calls1, reached1, d)
        ELSE LET calls2 == Append(calls1, "get_subsets")
                 reached2 == reached1 \cup {"get_subsets"}
                 filtered == FilteredSubsets(subs)
             IN  IF filtered = <<>>
                 THEN Returned("no_subsets", calls2, reached2, d)
                 ELSE LET subset_id == HookMatchSubset(filtered, d.task_name)
                          reached3 == reached2 \cup {"match_subset"}
                      IN  IF subset_id = NoneId
                          THEN Returned("no_matched_subset", calls2, reached3, d)
                          ELSE HookFromVersion(d, subset_id, calls2, reached3,
                                               has_ver, repres, dl)

\* CopyLastPublishedWorkfile.execute
HookExecute(d, setting, subs, has_ver, repres, dsk, dl) ==
    IF d.last_workfile_path = NonePath
    THEN Raised("TypeError", "exists", <<>>, {"exists"}, d)
    ELSE IF os_path_exists(d.last_workfile_path, dsk)
    THEN Returned("last_workfile_exists", <<>>, {"exists"}, d)
    ELSE HookFromSettings(d, setting, subs, has_ver, repres, dl)

----------------------------------------------------------------------------
(* download_last_workfile (hosts/blender/api/lib.py) *)

\* The sync server check without `not sync_server.enabled`
SyncServerUnavailable_OnlyAbsent(sync) == sync = "absent"

\* not sync_server or not sync_server.enabled
SyncServerUnavailable(sync) == sync = "absent" \/ sync = "disabled"

\* Lines 391-398: with more than one subset, the loop has no break, so the
\* last matching subset wins, and subset_id stays unbound when none matches;
\* a single subset is taken whatever its name
LibMatchSubset(filtered, task_name) ==
    IF Len(filtered) > 1
    THEN IF MatchingIndexes(filtered, task_name) # {}
         THEN [bound |-> TRUE,
               id |-> filtered[Max(MatchingIndexes(filtered, task_name))]._id]
         ELSE [bound |-> FALSE, id |-> NoneId]
    ELSE [bound |-> TRUE, id |-> filtered[1]._id]

\* r["context"].get("version") is truthy
HasContextVersion(repre) == repre.version # 0

\* max(filter(...), key=version): the index of the first representation that
\* has the greatest context version; 0 when the filter leaves nothing (max()
\* of an empty iterable raises ValueError)
LibSelectRepresentation(repres) ==
    LET withVersion == { i \in 1..Len(repres) : HasContextVersion(repres[i]) }
    IN  IF withVersion = {}
        THEN 0
        ELSE Min({ i \in withVersion :
                     \A j \in withVersion : repres[j].version <= repres[i].version })

\* Lines 443-465: download, check the file, return
LibDownload(subset_id, calls, reached, repre, dsk, dl) ==
    LET calls1 == Append(calls, "download_last_published_workfile")
        reached1 == reached \cup {"download"}
        r == IF dl = NonePath \/ ~os_path_exists(dl, dsk)
             THEN Raised("OSError", "download_failed", calls1, reached1,
                         NoResult.data)
             ELSE [Returned("downloaded", calls1, reached1, NoResult.data)
                     EXCEPT !.ret_path = dl]
    IN  [r EXCEPT !.subset_id = subset_id, !.repre_id = repre._id]

\* Lines 407-441, then the download
LibFromVersion(subset_id, calls, reached, has_ver, repres, dsk, dl) ==
    LET calls1 == Append(calls, "get_last_version_by_subset_id")
        reached1 == reached \cup {"last_version"}
    IN  IF ~has_ver
        THEN [Returned("no_version", calls1, reached1, NoResult.data)
                EXCEPT !.subset_id = subset_id]
        ELSE LET calls2 == Append(calls1, "get_representations")
                 reached2 == reached1 \cup {"representation"}
             IN  IF repres = <<>>
                 THEN [Raised("RuntimeError", "no_representation", calls2,
                              reached2, NoResult.data)
                         EXCEPT !.subset_id = subset_id]
                 ELSE IF LibSelectRepresentation(repres) = 0
                 THEN [Raised("ValueError", "max_of_empty", calls2,
                              reached2 \cup {"max"}, NoResult.data)
                         EXCEPT !.subset_id = subset_id]
                 ELSE LibDownload(subset_id, calls2, reached2 \cup {"max"},
                                  repres[LibSelectRepresentation(repres)],
                                  dsk, dl)

\* download_last_workfile
LibDownloadLastWorkfile(task_name, sync, subs, has_ver, repres, dsk, dl) ==
    IF SyncServerUnavailable(sync)
    THEN Raised("RuntimeError", "sync_server", <<>>, {"sync_server"},
                NoResult.data)
    ELSE LET calls1 == <<"Anatomy", "get_asset_by_name", "get_subsets">>
             reached1 == {"sync_server", "get_subsets"}
             filtered == FilteredSubsets(subs)
         IN  IF filtered = <<>>
             THEN Raised("RuntimeError", "no_subsets", calls1, reached1,
                         NoResult.data)
             ELSE LET m == LibMatchSubset(filtered, task_name)
                      reached2 == reached1 \cup {"match_subset"}
                  IN  IF ~m.bound
                      THEN Raised("UnboundLocalError", "subset_id", calls1,
                                  reached2, NoResult.data)
                      ELSE IF m.id = NoneId
                      THEN Returned("no_matched_subset", calls1, reached2,
                                    NoResult.data)
                      ELSE LibFromVersion(m.id, calls1, reached2, has_ver,
                                          repres, dsk, dl)

----------------------------------------------------------------------------
(* PreSetWorkfilePublishTime (hooks/pre_set_current_time_to_workfile.py) *)

EmptyPath == [root |-> "", n |-> 0]

\* Python truthiness of a path value
Truthy(path) == path # NonePath /\ path # EmptyPath

\* A launch argument is a string, or a nested list of strings
Arg(s) == [nested |-> FALSE, items |-> <<s>>]
NestedArg(items) == [nested |-> TRUE, items |-> items]

\* ["-P", <utility_scripts>/set_current_time_to_workfile.py]
SetCurrentTimeEntry == NestedArg(<<"-P", "set_current_time_to_workfile.py">>)

ArgValues ==
    { Arg("blender"), Arg("-P"), Arg("launch.py"),
      NestedArg(<<"-P", "set_workfile_publish_time.py">>) }

\* list.index(x) off by one: the position after the first element equal to x
ListIndex_After(args, x) == Min({ i \in 1..Len(args) : args[i] = x })

\* list.index(x): 0-based position of the first element equal to x
ListIndex(args, x) == Min({ i \in 1..Len(args) : args[i] = x }) - 1

\* list.insert(i, x) for 0 <= i <= len
ListInsert(args, i, x) ==
    SubSeq(args, 1, i) \o <<x>> \o SubSeq(args, i + 1, Len(args))

\* PreSetWorkfilePublishTime.execute
PreSetExecute(d, args) ==
    IF ~Truthy(d.source_filepath)
    THEN [res |-> Returned("no_source_filepath", <<>>, {"get"}, d),
          args |-> args]
    ELSE IF \A i \in 1..Len(args) : args[i] # Arg("-P")
    THEN [res |-> Raised("ValueError", "index", <<>>, {"get", "index"}, d),
          args |-> args]
    ELSE [res |-> Returned("inserted", <<>>, {"get", "index", "insert"}, d),
          args |-> ListInsert(args, ListIndex(args, Arg("-P")),
                              SetCurrentTimeEntry)]

----------------------------------------------------------------------------
(* Specification: one call of one entry point on inputs drawn in Init *)

CtxVersions == {0, 1, 2}

InitHook ==
    /\ op = "CopyLastPublishedWorkfile"
    /\ data \in [task_name : TaskNames,
                 last_workfile_path : {NonePath, WorkPath},
                 source_filepath : {NonePath}]
    /\ use_last_published_workfile \in {"None", "False", "True"}
    /\ subsets \in SubsetLists
    /\ has_last_version \in BOOLEAN
    /\ representations \in RepreLists(TaskNames, {1})
    /\ disk \in SUBSET {WorkPath}
    /\ sync_server = "enabled"
    /\ downloaded = LocalPath
    /\ launch_args = <<>>

InitLib ==
    /\ op = "download_last_workfile"
    /\ data \in [task_name : TaskNames,
                 last_workfile_path : {NonePath},
                 source_filepath : {NonePath}]
    /\ use_last_published_workfile = "None"
    /\ subsets \in SubsetLists
    /\ has_last_version \in BOOLEAN
    /\ representations \in UNION { RepreLists({t}, CtxVersions) : t \in TaskNames }
    /\ \A i \in 1..Len(representations) : representations[i].task = data.task_name
    /\ disk \in SUBSET {LocalPath}
    /\ sync_server \in {"absent", "disabled", "enabled"}
    /\ downloaded \in {NonePath, LocalPath}
    /\ launch_args = <<>>

InitPreSet ==
    /\ op = "PreSetWorkfilePublishTime"
    /\ data \in [task_name : {<<"c">>},
                 last_workfile_path : {WorkPath},
                 source_filepath : {NonePath, EmptyPath, OldSourcePath}]
    /\ use_last_published_workfile = "None"
    /\ subsets = <<>>
    /\ has_last_version = FALSE
    /\ representations = <<>>
    /\ disk = {}
    /\ sync_server = "enabled"
    /\ downloaded = NonePath
    /\ launch_args \in SeqsUpTo(ArgValues, MaxArgs)

Init ==
    /\ pc = "ready"
    /\ result = NoResult
    /\ InitHook \/ InitLib \/ InitPreSet
    /\ entry_data = data
    /\ entry_args = launch_args
    /\ instance = NoneVal
    /\ entry_instance = NoneVal
    /\ settings = NoneVal
    /\ world = NoneVal

CopyLastPublishedWorkfile_execute ==
    /\ pc = "ready"
    /\ op = "CopyLastPublishedWorkfile"
    /\ result' = HookExecute(data, use_last_published_workfile, subsets,
                             has_last_version, representations, disk, downloaded)
    /\ data' = result'.data
    /\ pc' = "done"
    /\ UNCHANGED <<op, entry_data, use_last_published_workfile, subsets,
                   has_last_version, representations, disk, sync_server,
                   downloaded, launch_args, entry_args, plugin_vars>>

download_last_workfile ==
    /\ pc = "ready"
    /\ op = "download_last_workfile"
    /\ result' = LibDownloadLastWorkfile(data.task_name, sync_server, subsets,
                                         has_last_version, representations,
                                         disk, downloaded)
    /\ pc' = "done"
    /\ UNCHANGED <<op, data, entry_data, use_last_published_workfile, subsets,
                   has_last_version, representations, disk, sync_server,
                   downloaded, launch_args, entry_args, plugin_vars>>

PreSetWorkfilePublishTime_execute ==
    /\ pc = "ready"
    /\ op = "PreSetWorkfilePublishTime"
    /\ result' = PreSetExecute(data, launch_args).res
    /\ launch_args' = PreSetExecute(data, launch_args).args
    /\ pc' = "done"
    /\ UNCHANGED <<op, data, entry_data, use_last_published_workfile, subsets,
                   has_last_version, representations, disk, sync_server,
                   downloaded, entry_args, plugin_vars>>

Next ==
    \/ CopyLastPublishedWorkfile_execute
    \/ download_last_workfile
    \/ PreSetWorkfilePublishTime_execute

Spec == Init /\ [][Next]_vars

----------------------------------------------------------------------------
(* Properties *)

HookDone == pc = "done" /\ op = "CopyLastPublishedWorkfile"
LibDone == pc = "done" /\ op = "download_last_workfile"
PreSetDone == pc = "done" /\ op = "PreSetWorkfilePublishTime"

\* the last workfile path of the entry bag leads to an existing file
LastWorkfileOnDisk ==
    entry_data.last_workfile_path # NonePath /\ entry_data.last_workfile_path \in disk

\* the last workfile path of the entry bag leads to no file
LastWorkfileMissing ==
    entry_data.last_workfile_path # NonePath /\ entry_data.last_workfile_path \notin disk

WorkfileSubsets == FilteredSubsets(subsets)

\* some representation of the answer is for the launched task
HasTaskRepresentation ==
    \E i \in 1..Len(representations) :
        representations[i].task = entry_data.task_name

\* C1: when the last workfile exists, execute returns without reading
\* settings, without any query or download, and leaves last_workfile_path
\* unchanged and source_filepath unset.
C1_ExistingWorkfileSkips ==
    (HookDone /\ LastWorkfileOnDisk) =>
        /\ result.outcome = "returned"
        /\ result.calls = <<>>
        /\ data.last_workfile_path = entry_data.last_workfile_path
        /\ data.source_filepath = NonePath

C1_Witness ==
    /\ HookDone
    /\ LastWorkfileOnDisk
    /\ use_last_published_workfile = "True"
    /\ Len(WorkfileSubsets) > 1
    /\ result.exit = "last_workfile_exists"

SoftSkipExits ==
    { "settings_missing", "settings_off", "no_subsets", "no_matched_subset",
      "no_version", "no_representation" }

\* the inputs of a soft skip: setting missing or False, no workfile subset,
\* no subset name containing the task name, no version, no representation
\* for the task
SoftSkipInput ==
    \/ use_last_published_workfile \in {"None", "False"}
    \/ WorkfileSubsets = <<>>
    \/ MatchingIndexes(WorkfileSubsets, entry_data.task_name) = {}
    \/ ~has_last_version
    \/ ~HasTaskRepresentation

\* C2: on every soft-skip path execute returns normally, never calls
\* download_last_published_workfile, and leaves last_workfile_path and
\* source_filepath as they were on entry.
C2_SoftSkipsReturn ==
    /\ (HookDone /\ LastWorkfileMissing /\ SoftSkipInput) =>
           result.exit \in SoftSkipExits
    /\ (HookDone /\ result.exit \in SoftSkipExits) =>
           /\ result.outcome = "returned"
           /\ \A i \in 1..Len(result.calls) :
                  result.calls[i] # "download_last_published_workfile"
           /\ data = entry_data

C2_Witness ==
    /\ HookDone
    /\ LastWorkfileMissing
    /\ use_last_published_workfile = "True"
    /\ has_last_version
    /\ representations # <<>>
    /\ result.exit = "no_representation"

\* C3: with no last workfile, the setting True and exactly one workfile
\* subset whose last version has a representation for the task, that subset
\* is selected and execute substitutes the published workfile:
\* last_workfile_path becomes the download's result and source_filepath the
\* published workfile path.
C3_SingleSubsetSubstitutes ==
    ( /\ HookDone
      /\ LastWorkfileMissing
      /\ use_last_published_workfile = "True"
      /\ Len(WorkfileSubsets) = 1
      /\ has_last_version
      /\ HasTaskRepresentation ) =>
        /\ result.outcome = "returned"
        /\ result.subset_id = WorkfileSubsets[1]._id
        /\ data.last_workfile_path = downloaded
        /\ data.source_filepath =
             PublishedPath(representations[
                 HookWorkfileRepresentation(representations, entry_data.task_name)])

\* C4: for more than one workfile subset of which at least one name contains
\* the lower-cased task name, download_last_workfile selects the subset id
\* that CopyLastPublishedWorkfile.execute selects.
C4_SameSubsetSelected ==
    ( /\ LibDone
      /\ sync_server = "enabled"
      /\ Len(WorkfileSubsets) > 1
      /\ MatchingIndexes(WorkfileSubsets, entry_data.task_name) # {} ) =>
        result.subset_id = HookMatchSubset(WorkfileSubsets, entry_data.task_name)

DeadCodeLabels ==
    { "local_site_id", "add_site", "poll", "copy", "source_filepath_legacy" }

LiveExits ==
    SoftSkipExits \cup { "exists", "last_workfile_exists", "published_path",
                         "substituted" }

\* C5: no execution of execute reaches the add_site calls or the polling
\* loop: every execution ends at or before the return that follows the
\* assignment of source_filepath.
C5_SyncCodeUnreachable ==
    HookDone =>
        /\ result.reached \cap DeadCodeLabels = {}
        /\ \A i \in 1..Len(result.calls) :
               result.calls[i] \notin {"add_site", "is_representation_on_site"}
        /\ result.exit \in LiveExits

C5_Witness ==
    /\ HookDone
    /\ "published_path" \in result.reached

\* seq without its k-th element
RemoveAt(seq, k) == SubSeq(seq, 1, k - 1) \o SubSeq(seq, k + 1, Len(seq))

\* C6: with source_filepath missing or falsy launch_args is unchanged; with
\* it truthy and "-P" among the arguments, exactly one new entry, the pair
\* ["-P", set_current_time_to_workfile.py], is inserted immediately before
\* the first "-P", and the former arguments are kept in their order.
C6_ScriptInsertedBeforeFirstP ==
    /\ (PreSetDone /\ ~(entry_data.source_filepath \notin {NonePath, EmptyPath})) =>
           launch_args = entry_args /\ result.outcome = "returned"
    /\ ( /\ PreSetDone
         /\ entry_data.source_filepath \notin {NonePath, EmptyPath}
         /\ \E i \in 1..Len(entry_args) : entry_args[i] = Arg("-P") ) =>
           /\ result.outcome = "returned"
           /\ Len(launch_args) = Len(entry_args) + 1
           /\ \E k \in 1..Len(entry_args) :
                  /\ launch_args[k] = SetCurrentTimeEntry
                  /\ launch_args[k + 1] = Arg("-P")
                  /\ \A j \in 1..(k - 1) : launch_args[j] # Arg("-P")
                  /\ RemoveAt(launch_args, k) = entry_args

C6_Witness ==
    /\ PreSetDone
    /\ result.exit = "inserted"
    /\ Len(entry_args) = 3
    /\ entry_args[1] # Arg("-P")
    /\ entry_args[2] = Arg("-P")
    /\ entry_args[3] = Arg("-P")

\* C7: if the sync server module is absent or not enabled, the call raises
\* RuntimeError before any database query and before any download.
C7_NoSyncServerRaisesFirst ==
    (LibDone /\ sync_server \in {"absent", "disabled"}) =>
        /\ result.outcome = "raised"
        /\ result.exc = "RuntimeError"
        /\ result.calls = <<>>

C7_Witness ==
    /\ LibDone
    /\ sync_server = "disabled"
    /\ WorkfileSubsets # <<>>
    /\ representations # <<>>
    /\ result.exit = "sync_server"

\* C8: whenever download_last_workfile returns without raising, its result
\* carries the path of the downloaded workfile and that path exists on disk.
C8_ReturnCarriesPath ==
    (LibDone /\ result.outcome = "returned") =>
        result.ret_path # NonePath /\ result.ret_path \in disk

\* C9: with more than one workfile subset and no name containing the
\* lower-cased task name, download_last_workfile reports that no subset
\* matched and returns without raising, without querying versions and
\* without downloading.
C9_NoMatchReturns ==
    ( /\ LibDone
      /\ sync_server = "enabled"
      /\ Len(WorkfileSubsets) > 1
      /\ MatchingIndexes(WorkfileSubsets, entry_data.task_name) = {} ) =>
        /\ result.outcome = "returned"
        /\ result.exit = "no_matched_subset"
        /\ \A i \in 1..Len(result.calls) :
               result.calls[i] \notin {"get_last_version_by_subset_id",
                                       "download_last_published_workfile"}

\* C10: when the queried representations are empty or none has a truthy
\* context version, download_last_workfile raises RuntimeError and never
\* calls the download; otherwise the representation passed to the download
\* has the greatest context version of the answer.
C10_NoVersionedRepresentationRaises ==
    (LibDone /\ "representation" \in result.reached) =>
        IF \A i \in 1..Len(representations) : representations[i].version = 0
        THEN /\ result.outcome = "raised"
             /\ result.exc = "RuntimeError"
             /\ \A i \in 1..Len(result.calls) :
                    result.calls[i] # "download_last_published_workfile"
        ELSE /\ "download" \in result.reached
             /\ \A i \in 1..Len(representations) :
                    representations[i].version
                        <= representations[result.repre_id].version

----------------------------------------------------------------------------
(* ValidateRenderedFrames (pype/plugins/nuke/publish/validate_rendered_frames.py) *)

MaxFrame == 4
MaxInstanceRepres == 2

\* The launch variables while a publish plugin or a path tool runs
LaunchIdle ==
    /\ data = NoResult.data
    /\ entry_data = NoResult.data
    /\ use_last_published_workfile = "None"
    /\ subsets = <<>>
    /\ has_last_version = FALSE
    /\ representations = <<>>
    /\ disk = {}
    /\ sync_server = "enabled"
    /\ downloaded = NonePath
    /\ launch_args = <<>>
    /\ entry_args = <<>>

\* collection.indexes: a non-empty set of frame numbers
FrameSets == (SUBSET (1..MaxFrame)) \ {{}}

\* What clique.assemble answers for the files of a representation: no
\* collection (every file in the remainder), one collection, or two
AssembleAnswers ==
    {<<>>} \cup { <<c>> : c \in FrameSets }
           \cup { <<1..n, {1, 2}>> : n \in 1..MaxFrame }

\* A representation: has it files, and what clique.assemble makes of them
FrameRepres ==
    { [files |-> FALSE, collections |-> <<>>] }
        \cup { [files |-> TRUE, collections |-> a] : a \in AssembleAnswers }

\* The representations that follow the first one: without files, or complete
LaterRepres ==
    { [files |-> FALSE, collections |-> <<>>],
      [files |-> TRUE, collections |-> <<1..MaxFrame>>] }

FrameRepreLists ==
    {<<>>} \cup { <<r>> \o t : r \in FrameRepres,
                              t \in SeqsUpTo(LaterRepres, MaxInstanceRepres - 1) }

\* collection.is_contiguous()
IsContiguous(indexes) ==
    \A i \in Min(indexes)..Max(indexes) : i \in indexes

\* Lines 105-114: the slate adjustment and the assert
FramesCover(inst, collection) ==
    LET frame_length == inst.frameEndHandle - inst.frameStartHandle + 1
        len == Cardinality(collection)
        slate == "slate" \in inst.families /\ frame_length # len
        collected_frames_len == IF slate THEN len - 1 ELSE len
        fstartH == IF slate THEN inst.frameStartHandle + 1
                            ELSE inst.frameStartHandle
    IN  /\ collected_frames_len >= frame_length
        /\ Min(collection) <= fstartH
        /\ Max(collection) >= inst.frameEndHandle

\* Lines 62-116: one pass of the loop body, up to the assignment of
\* instance.data["collection"]
ValidateRepresentation(inst, repre) ==
    LET frame_length == inst.frameEndHandle - inst.frameStartHandle + 1
        none == NoResult.data
    IN  IF ~repre.files
        THEN [res |-> Raised("ValidationException", "no_frames", <<>>,
                             {"files"}, none),
              inst |-> inst]
        ELSE IF repre.collections = <<>>
        THEN [res |-> Raised("IndexError", "collections_0",
                             <<"clique.assemble">>, {"files", "assemble"}, none),
              inst |-> inst]
        ELSE IF frame_length # 1 /\ Len(repre.collections) # 1
        THEN [res |-> Raised("ValidationException", "multiple_collections",
                             <<"clique.assemble">>,
                             {"files", "assemble", "count"}, none),
              inst |-> inst]
        ELSE IF frame_length # 1 /\ ~IsContiguous(repre.collections[1])
        THEN [res |-> Raised("ValidationException", "missing_frames",
                             <<"clique.assemble">>,
                             {"files", "assemble", "count", "contiguous"}, none),
              inst |-> inst]
        ELSE IF ~FramesCover(inst, repre.collections[1])
        THEN [res |-> Raised("AssertionError", "assert", <<"clique.assemble">>,
                             {"files", "assemble", "assert"}, none),
              inst |-> inst]
        ELSE [res |-> Returned("validated", <<"clique.assemble">>,
                               {"files", "assemble", "assert", "return"}, none),
              inst |-> [inst EXCEPT !.collection = repre.collections[1]]]

\* ValidateRenderedFrames.process: the return of line 118 is inside the loop,
\* so the loop body runs for the first representation only
ValidateProcess(inst) ==
    IF inst.representations = <<>>
    THEN [res |-> Returned("no_representations", <<>>, {}, NoResult.data),
          inst |-> inst]
    ELSE ValidateRepresentation(inst, inst.representations[1])

InitFrames ==
    /\ pc = "ready"
    /\ op = "ValidateRenderedFrames"
    /\ result = NoResult
    /\ LaunchIdle
    /\ instance \in { [representations |-> r, frameStartHandle |-> s,
                       frameEndHandle |-> e, families |-> f, collection |-> {}] :
                        r \in FrameRepreLists, s \in 1..MaxFrame,
                        e \in 1..MaxFrame,
                        f \in {{"render"}, {"render", "slate"}} }
    /\ instance.frameStartHandle <= instance.frameEndHandle
    /\ entry_instance = instance
    /\ settings = NoneVal
    /\ world = NoneVal

ValidateRenderedFrames_process ==
    /\ pc = "ready"
    /\ op = "ValidateRenderedFrames"
    /\ result' = ValidateProcess(instance).res
    /\ instance' = ValidateProcess(instance).inst
    /\ pc' = "done"
    /\ UNCHANGED <<op, launch_vars, entry_instance, settings, world>>

NextFrames == ValidateRenderedFrames_process

SpecFrames == InitFrames /\ [][NextFrames]_vars

FramesDone == pc = "done" /\ op = "ValidateRenderedFrames"

\* C11: if any representation of the instance, not only the first, has no
\* files, process raises ValidationException; process returns normally only
\* if every representation has collected files.
C11_EveryRepresentationHasFiles ==
    FramesDone =>
        /\ (\E i \in 1..Len(entry_instance.representations) :
                ~entry_instance.representations[i].files)
             => result.outcome = "raised"
        /\ (entry_instance.representations # <<>>
               /\ ~entry_instance.representations[1].files)
             => result.exc = "ValidationException"
        /\ result.outcome = "returned"
             => \A i \in 1..Len(entry_instance.representations) :
                    entry_instance.representations[i].files

\* C12: if process returns without raising for a range of more than one
\* frame, every frame from frameStartHandle to frameEndHandle is among the
\* indexes of the validated collection, with and without "slate".
C12_ValidatedRangeComplete ==
    ( /\ FramesDone
      /\ result.outcome = "returned"
      /\ entry_instance.representations # <<>>
      /\ entry_instance.frameEndHandle - entry_instance.frameStartHandle + 1 > 1 ) =>
        \A f \in entry_instance.frameStartHandle..entry_instance.frameEndHandle :
            f \in instance.collection

\* C13: when the frame length is not 1, process raises ValidationException
\* unless the files assemble into exactly one collection and that collection
\* is contiguous; when the frame length is 1 neither check is applied.
C13_OneContiguousCollection ==
    ( /\ FramesDone
      /\ entry_instance.representations # <<>>
      /\ entry_instance.representations[1].files ) =>
        LET colls == entry_instance.representations[1].collections
            frame_length == entry_instance.frameEndHandle
                              - entry_instance.frameStartHandle + 1
            oneContiguous ==
                /\ Len(colls) = 1
                /\ \A i \in 1..MaxFrame :
                       (\E a, b \in colls[1] : a < i /\ i < b) => i \in colls[1]
        IN  /\ (frame_length # 1 /\ ~oneContiguous)
                 => (result.outcome = "raised"
                       /\ result.exc = "ValidationException")
            /\ frame_length = 1
                 => result.exit \notin {"multiple_collections", "missing_frames"}

----------------------------------------------------------------------------
(* IntegrateKitsuNote, IntegrateKitsuReview (modules/kitsu/plugins/publish) *)

MaxExceptions == 2
MaxInstances == 1

\* str.startswith(c) for a one-character prefix
StartsWithChar(str, c) == Len(str) >= 1 /\ str[1] = c

\* The `equality` values of a status exception
Equalities == { <<"e", "q">>, <<"n", "e">>, <<"x">> }

StatusExceptions ==
    [short_name : {"wip", "wfa"}, equality : Equalities]

\* The condition of the generator of lines 30-41 for one exception: no
\* `startswith("n")` alternative
ExceptionApplies_EqualOnly(shortname, se) ==
    shortname = se.short_name /\ StartsWithChar(se.equality, "e")

\* The condition of the generator of lines 30-41 for one exception
ExceptionApplies(shortname, se) ==
    \/ shortname = se.short_name /\ StartsWithChar(se.equality, "e")
    \/ shortname # se.short_name /\ StartsWithChar(se.equality, "n")

\* next((False for se in ... if ...), True)
NoExceptionApplies(shortname, status_exceptions) ==
    \A i \in 1..Len(status_exceptions) :
        ~ExceptionApplies(shortname, status_exceptions[i])

\* kitsu_task["task_status_id"]
TaskStatusId(kitsu_task) == [kind |-> "id", short_name |-> kitsu_task.task_status]

\* gazu.task.get_task_status_by_short_name: the status, or None
GetTaskStatusByShortName(server, short_name) ==
    IF short_name \in server.statuses
    THEN [kind |-> "status", short_name |-> short_name]
    ELSE [kind |-> "None", short_name |-> NoneVal]

\* Lines 25-52: the status the note is posted with
NoteStatus(cfg, kitsu_task, server) ==
    IF cfg.set_status_note
         /\ NoExceptionApplies(kitsu_task.task_status, cfg.status_exceptions)
    THEN LET kitsu_status ==
                 GetTaskStatusByShortName(server, cfg.note_status_shortname)
         IN  IF kitsu_status.kind # "None"
             THEN kitsu_status
             ELSE TaskStatusId(kitsu_task)
    ELSE TaskStatusId(kitsu_task)

\* gazu.task.add_comment: the comment the server creates
AddComment(server, kitsu_task, note_status, text) ==
    [id |-> Len(server.comments) + 1, task |-> kitsu_task.id,
     status |-> note_status, text |-> text]

\* IntegrateKitsuNote.process: post the comment, keep it in context.data
NoteProcess(cfg, publish, server) ==
    LET kitsu_task == publish.context.kitsu_task
        note_status == NoteStatus(cfg, kitsu_task, server)
        kitsu_comment == AddComment(server, kitsu_task, note_status,
                                    publish.context.comment)
    IN  [publish |-> [publish EXCEPT !.context.kitsu_comment = kitsu_comment],
         server |-> [server EXCEPT !.comments = Append(@, kitsu_comment)]]

\* Lines 26-33: one preview per representation, on the comment
AddPreviews(server, task, comment_id, paths) ==
    [server EXCEPT !.previews =
        @ \o [i \in 1..Len(paths) |->
                 [task |-> task, comment |-> comment_id, path |-> paths[i]]]]

\* IntegrateKitsuReview.process on one instance: the comment is read from
\* instance.data
ReviewProcess(inst, server) ==
    IF inst.kitsu_comment.id = 0
    THEN [res |-> Returned("no_comment", <<>>, {"get"}, NoResult.data),
          server |-> server]
    ELSE [res |-> Returned("uploaded", <<"add_preview">>, {"get", "add_preview"},
                           NoResult.data),
          server |-> AddPreviews(server, inst.kitsu_task.id,
                                 inst.kitsu_comment.id, inst.representations)]

\* the plugin's families
ReviewFamilies == {"render", "review"}

\* no comment
NoComment == [id |-> 0, task |-> 0, status |-> [kind |-> "None", short_name |-> NoneVal],
              text |-> NoneVal]

KitsuTasks == [id : {7}, task_status : {"wip", "wfa"}]

\* instance.data of the instances of the publish
KitsuInstances(kitsu_task) ==
    [family : {"review", "model"},
     representations : {<<>>, <<"review.mp4">>, <<"review.mp4", "review.jpg">>},
     kitsu_task : {kitsu_task},
     kitsu_comment : {NoComment}]

InitKitsu ==
    /\ pc = "ready"
    /\ op = "Kitsu"
    /\ result = NoResult
    /\ LaunchIdle
    /\ settings \in [set_status_note : BOOLEAN,
                     note_status_shortname : {"wfa"},
                     status_exceptions : SeqsUpTo(StatusExceptions, MaxExceptions)]
    /\ \E t \in KitsuTasks :
           instance \in [context : [comment : {"look at this"},
                                    kitsu_task : {t},
                                    kitsu_comment : {NoComment}],
                         instances : SeqsUpTo(KitsuInstances(t), MaxInstances),
                         next : {1}]
    /\ entry_instance = instance
    /\ world \in [statuses : {{"wip"}, {"wip", "wfa"}},
                  comments : {<<>>},
                  previews : {<<>>}]

\* IntegrateKitsuNote.process (order IntegratorOrder)
IntegrateKitsuNote_process ==
    /\ pc = "ready"
    /\ op = "Kitsu"
    /\ instance' = NoteProcess(settings, instance, world).publish
    /\ world' = NoteProcess(settings, instance, world).server
    /\ result' = Returned("noted", <<"add_comment">>, {"add_comment"},
                          NoResult.data)
    /\ pc' = "noted"
    /\ UNCHANGED <<op, launch_vars, entry_instance, settings>>

\* IntegrateKitsuReview.process (order IntegratorOrder + 0.01) on the next
\* instance of the context, when its family is one of the plugin's
IntegrateKitsuReview_process ==
    /\ pc = "noted"
    /\ op = "Kitsu"
    /\ instance.next <= Len(instance.instances)
    /\ LET inst == instance.instances[instance.next]
       IN  IF inst.family \in ReviewFamilies
           THEN /\ result' = ReviewProcess(inst, world).res
                /\ world' = ReviewProcess(inst, world).server
           ELSE /\ result' = Returned("not_run", <<>>, {}, NoResult.data)
                /\ world' = world
    /\ instance' = [instance EXCEPT !.next = @ + 1]
    /\ pc' = IF instance.next = Len(instance.instances) THEN "done" ELSE "noted"
    /\ UNCHANGED <<op, launch_vars, entry_instance, settings>>

NextKitsu ==
    \/ IntegrateKitsuNote_process
    \/ IntegrateKitsuReview_process

SpecKitsu == InitKitsu /\ [][NextKitsu]_vars

\* an exception entry matches the task's current status short name
EntryMatches(se, shortname) ==
    \/ (se.equality[1] = "e" /\ se.short_name = shortname)
    \/ (se.equality[1] = "n" /\ se.short_name # shortname)

\* C14: the note is posted with the configured status if and only if
\* set_status_note is true, that status is found in Kitsu and no entry of
\* status_exceptions matches; otherwise with the task's current status id.
C14_NoteStatus ==
    (op = "Kitsu" /\ pc # "ready") =>
        LET shortname == entry_instance.context.kitsu_task.task_status
            configured ==
                /\ settings.set_status_note
                /\ settings.note_status_shortname \in world.statuses
                /\ ~\E i \in 1..Len(settings.status_exceptions) :
                       EntryMatches(settings.status_exceptions[i], shortname)
        IN  /\ Len(world.comments) = 1
            /\ world.comments[1].status =
                 IF configured
                 THEN [kind |-> "status",
                       short_name |-> settings.note_status_shortname]
                 ELSE [kind |-> "id", short_name |-> shortname]

C14_Witness ==
    /\ op = "Kitsu"
    /\ pc # "ready"
    /\ settings.set_status_note
    /\ Len(settings.status_exceptions) = 2
    /\ settings.status_exceptions[1].equality = <<"n", "e">>
    /\ settings.status_exceptions[2].equality = <<"e", "q">>
    /\ world.comments[1].status.kind = "status"

\* C15: after IntegrateKitsuNote has created and stored a comment,
\* IntegrateKitsuReview on a render/review instance finds it and uploads
\* one preview per representation of the instance on that comment; no
\* preview is uploaded when no comment has been created.
C15_ReviewUploadsOnComment ==
    /\ (op = "Kitsu" /\ pc = "done") =>
           \A i \in 1..Len(instance.instances) :
               instance.instances[i].family \in ReviewFamilies =>
                   /\ instance.context.kitsu_comment.id # 0
                   /\ Len(world.previews) >= Len(instance.instances[i].representations)
                   /\ \A k \in 1..Len(world.previews) :
                          world.previews[k].comment = instance.context.kitsu_comment.id
    /\ (op = "Kitsu" /\ world.comments = <<>>) => world.previews = <<>>

----------------------------------------------------------------------------
(* version_up, get_last_version_from_path (pype/lib/path_tools.py) *)

MaxListing == 3

\* File names are sequences of characters
DigitChars == <<"0", "1", "2", "3", "4", "5", "6", "7", "8", "9">>

IsDigit(c) == \E i \in 1..Len(DigitChars) : DigitChars[i] = c

DigitValue(c) == (CHOOSE i \in 1..Len(DigitChars) : DigitChars[i] = c) - 1

StartsWith(s, prefix) ==
    Len(prefix) <= Len(s) /\ SubSeq(s, 1, Len(prefix)) = prefix

EndsWith(s, suffix) ==
    Len(suffix) <= Len(s) /\ SubSeq(s, Len(s) - Len(suffix) + 1, Len(s)) = suffix

\* The positions where `a` occurs in `s`
Occurrences(s, a) ==
    { i \in 1..(Len(s) - Len(a) + 1) : SubSeq(s, i, i + Len(a) - 1) = a }

\* str.find, 1-based; 0 when absent
Find(s, a) == IF Occurrences(s, a) = {} THEN 0 ELSE Min(Occurrences(s, a))

\* str.rfind, 1-based; 0 when absent
RFind(s, a) == IF Occurrences(s, a) = {} THEN 0 ELSE Max(Occurrences(s, a))

\* s with the occurrence of `a` at position i replaced by b
ReplaceAt(s, i, a, b) ==
    SubSeq(s, 1, i - 1) \o b \o SubSeq(s, i + Len(a), Len(s))

\* str.replace(a, b, 1)
ReplaceFirst(s, a, b) ==
    IF Find(s, a) = 0 THEN s ELSE ReplaceAt(s, Find(s, a), a, b)

\* _rreplace(s, a, b): b.join(s.rsplit(a, 1))
_rreplace(s, a, b) ==
    IF RFind(s, a) = 0 THEN s ELSE ReplaceAt(s, RFind(s, a), a, b)

\* os.path.splitext of a file name: the extension starts at the last dot,
\* unless only dots precede it
splitext(name) ==
    LET dot == RFind(name, <<".">>)
    IN  IF dot > 0 /\ \E i \in 1..(dot - 1) : name[i] # "."
        THEN [root |-> SubSeq(name, 1, dot - 1), ext |-> SubSeq(name, dot, Len(name))]
        ELSE [root |-> name, ext |-> <<>>]

\* The start positions of the matches of [._]v\d+ (IGNORECASE)
VersionMatches(s) ==
    { i \in 1..(Len(s) - 2) : /\ s[i] \in {".", "_"}
                               /\ s[i + 1] \in {"v", "V"}
                               /\ IsDigit(s[i + 2]) }

\* The last position of the match starting at i: \d+ is greedy
MatchEnd(s, i) ==
    Max({ j \in (i + 2)..Len(s) : \A k \in (i + 2)..j : IsDigit(s[k]) })

\* matches[-1]
LastLabel(s) ==
    LET i == Max(VersionMatches(s)) IN SubSeq(s, i, MatchEnd(s, i))

\* int(version)
RECURSIVE ToInt(_)
ToInt(digits) ==
    IF digits = <<>> THEN 0
    ELSE 10 * ToInt(SubSeq(digits, 1, Len(digits) - 1))
           + DigitValue(digits[Len(digits)])

RECURSIVE ToDigits(_)
ToDigits(n) ==
    IF n < 10 THEN <<DigitChars[n + 1]>>
    ELSE ToDigits(n \div 10) \o <<DigitChars[(n % 10) + 1]>>

\* '{version:0{padding}d}'.format(...)
RECURSIVE ZeroPadded(_, _)
ZeroPadded(digits, padding) ==
    IF Len(digits) >= padding THEN digits
    ELSE ZeroPadded(<<"0">> \o digits, padding)

\* Lines 80-95: the new label and the new base name
NewLabelAndBasename(basename) ==
    IF VersionMatches(basename) = {}
    THEN [label |-> <<"_", "v", "0", "0", "1">>,
          basename |-> basename \o <<"_", "v", "0", "0", "1">>]
    ELSE LET label == LastLabel(basename)
             version == SubSeq(label, 3, Len(label))
             new_version == ZeroPadded(ToDigits(ToInt(version) + 1), Len(version))
             new_label == ReplaceFirst(label, version, new_version)
         IN  [label |-> new_label,
              basename |-> _rreplace(basename, label, new_label)]

\* Lines 97-100: cut what follows the first occurrence of the new label
Truncated(new_basename, new_label) ==
    IF EndsWith(new_basename, new_label) THEN new_basename
    ELSE SubSeq(new_basename, 1, Find(new_basename, new_label) + Len(new_label) - 1)

\* version_up on a file of a directory whose listing is `listing`; the
\* directory part of the path is kept, so only the file name is computed
RECURSIVE version_up(_, _)
version_up(name, listing) ==
    LET basename == splitext(name).root
        ext == splitext(name).ext
        nb == NewLabelAndBasename(basename)
        new_basename == Truncated(nb.basename, nb.label)
        new_filename == new_basename \o ext
    IN  IF new_filename = name
        THEN [outcome |-> "raised", name |-> name]
        ELSE IF \E file \in listing :
                    EndsWith(file, ext) /\ StartsWith(file, new_basename)
             THEN version_up(new_filename, listing)
             ELSE [outcome |-> "returned", name |-> new_filename]

\* re.findall(".*".join(filter), file): the filter strings occur in the
\* file name in order, one after the other
RECURSIVE MatchesFrom(_, _, _)
MatchesFrom(file, filter, start) ==
    IF filter = <<>> THEN TRUE
    ELSE \E i \in Occurrences(file, Head(filter)) :
             /\ i >= start
             /\ MatchesFrom(file, Tail(filter), i + Len(Head(filter)))

FilterMatches(file, filter) == MatchesFrom(file, filter, 1)

\* get_last_version_from_path(path_dir, filter), listing = os.listdir(path_dir).
\* Line 170 evaluates sorted(filtred_files) and drops the value: the list
\* keeps the listing's order
get_last_version_from_path(listing, filter) ==
    IF filter = <<>>
    THEN [outcome |-> "raised", kind |-> "None", name |-> <<>>]
    ELSE LET filtred_files ==
                 SelectSeq(listing, LAMBDA file : FilterMatches(file, filter))
         IN  IF filtred_files # <<>>
             THEN [outcome |-> "returned", kind |-> "str",
                   name |-> filtred_files[Len(filtred_files)]]
             ELSE [outcome |-> "returned", kind |-> "None", name |-> <<>>]

\* The file names given to version_up
VersionUpNames ==
    { <<"s", ".", "x">>,
      <<"s", "_", "v", "1", ".", "x">>,
      <<"s", "_", "v", "9", ".", "x">>,
      <<"s", "_", "v", "0", "1", ".", "x">>,
      <<"s", "_", "V", "1", ".", "x">>,
      <<"s", "_", "v", "1", "c", ".", "x">>,
      <<"s", "_", "v", "2", "_", "v", "1", "c", ".", "x">>,
      <<"s", ".", "v", "1", ".", "x">>,
      <<"s", "_", "v", "1">>,
      <<"s", ".", "v", "1">> }

\* The files the directory may hold beside the one given
VersionUpFiles ==
    { <<"s", "_", "v", "0", "0", "1", ".", "x">>,
      <<"s", "_", "v", "2", ".", "x">>,
      <<"s", "_", "v", "2", "b", ".", "x">>,
      <<"s", "_", "v", "3", ".", "x">>,
      <<"s", "_", "v", "2", ".", "y">>,
      <<"s", "_", "v", "0", "2", ".", "x">>,
      <<"s", "_", "v", "1", "0", ".", "x">>,
      <<"s", "_", "v", "2">> }

\* The directory listings of get_last_version_from_path
ListedFiles ==
    { <<"s", "1", "n">>, <<"s", "2", "n">>, <<"s", "2", "m">>, <<"t", "1", "n">> }

Filters ==
    { <<>>, << <<"s">> >>, << <<"s">>, <<"n">> >>, << <<"n">>, <<"s">> >>,
      << <<"2">> >> }

\* os.listdir: the entries, each once, in any order
Listings ==
    { l \in SeqsUpTo(ListedFiles, MaxListing) :
        \A i, j \in 1..Len(l) : i # j => l[i] # l[j] }

NoReturn == [kind |-> "none", name |-> <<>>]

InitPaths ==
    /\ pc = "ready"
    /\ result = NoResult
    /\ LaunchIdle
    /\ settings = NoneVal
    /\ world = NoReturn
    /\ \/ /\ op = "version_up"
          /\ instance \in
               [name : VersionUpNames,
                listing : { l \in SUBSET VersionUpFiles : Cardinality(l) <= MaxListing }]
       \/ /\ op = "get_last_version_from_path"
          /\ instance \in [listing : Listings, filter : Filters]
    /\ entry_instance = instance

\* version_up(filepath); the file given is in its directory
version_up_call ==
    /\ pc = "ready"
    /\ op = "version_up"
    /\ LET r == version_up(instance.name, instance.listing \cup {instance.name})
       IN  IF r.outcome = "raised"
           THEN /\ result' = Raised("RuntimeError", "same_path", <<>>, {},
                                    NoResult.data)
                /\ world' = world
           ELSE /\ result' = Returned("new_version", <<>>, {}, NoResult.data)
                /\ world' = [kind |-> "str", name |-> r.name]
    /\ pc' = "done"
    /\ UNCHANGED <<op, launch_vars, instance, entry_instance, settings>>

\* get_last_version_from_path(path_dir, filter)
get_last_version_from_path_call ==
    /\ pc = "ready"
    /\ op = "get_last_version_from_path"
    /\ LET r == get_last_version_from_path(instance.listing, instance.filter)
       IN  IF r.outcome = "raised"
           THEN /\ result' = Raised("AssertionError", "assert_filter", <<>>, {},
                                    NoResult.data)
                /\ world' = world
           ELSE /\ result' = Returned("last_version", <<>>, {}, NoResult.data)
                /\ world' = [kind |-> r.kind, name |-> r.name]
    /\ pc' = "done"
    /\ UNCHANGED <<op, launch_vars, instance, entry_instance, settings>>

NextPaths ==
    \/ version_up_call
    \/ get_last_version_from_path_call

SpecPaths == InitPaths /\ [][NextPaths]_vars

\* The version number of the last version identifier of a name
LastVersion(name) ==
    LET label == LastLabel(name) IN ToInt(SubSeq(label, 3, Len(label)))

\* C16: version_up returns a path that differs from the input, whose version
\* is strictly greater than the version of the input's last `_vNNN` or
\* `.vNNN` identifier (or is 1, with suffix `_v001`, when the input has none),
\* and no file of the directory starts with the returned base name and ends
\* with the input's extension.
C16_NewNonExistingVersion ==
    (op = "version_up" /\ pc = "done" /\ result.outcome = "returned") =>
        LET input == instance.name
            ret == world.name
        IN  /\ ret # input
            /\ VersionMatches(ret) # {}
            /\ IF VersionMatches(input) # {}
               THEN LastVersion(ret) > LastVersion(input)
               ELSE /\ LastVersion(ret) = 1
                    /\ EndsWith(splitext(ret).root, <<"_", "v", "0", "0", "1">>)
            /\ ~\E file \in instance.listing \cup {input} :
                   /\ StartsWith(file, splitext(ret).root)
                   /\ EndsWith(file, splitext(input).ext)

\* The characters of the names, in code point order
CharOrder == <<".", "0", "1", "2", "3", "9", "V", "_", "b", "c", "m", "n",
               "s", "t", "v", "x", "y">>

CharRank(c) == CHOOSE i \in 1..Len(CharOrder) : CharOrder[i] = c

\* a < b for strings
RECURSIVE StrLess(_, _)
StrLess(a, b) ==
    IF b = <<>> THEN FALSE
    ELSE IF a = <<>> THEN TRUE
    ELSE IF a[1] # b[1] THEN CharRank(a[1]) < CharRank(b[1])
    ELSE StrLess(Tail(a), Tail(b))

\* C17: get_last_version_from_path returns the greatest name, in sorted
\* order, among the files that match all the filter strings in order,
\* whatever the order of the listing; it returns None only when no file
\* matches.
C17_GreatestMatchingName ==
    (op = "get_last_version_from_path" /\ pc = "done"
       /\ result.outcome = "returned") =>
        LET matching == { instance.listing[i] : i \in
                            { k \in 1..Len(instance.listing) :
                                FilterMatches(instance.listing[k], instance.filter) } }
        IN  /\ (world.kind = "None") <=> (matching = {})
            /\ matching # {} =>
                   /\ world.name \in matching
                   /\ \A f \in matching : f = world.name \/ StrLess(f, world.name)

----------------------------------------------------------------------------
(* ExtractThumbnail (hosts/blender/plugins/publish/extract_thumbnail.py) *)

\* self.staging_dir(instance)
StagingDir == "/stage"

\* capture answers no path when the playblast is interrupted
NoCapturePath == [dir |-> NoneVal, base |-> NoneVal]

\* os.path.join(stagingdir, instance.name)
CapturePath == [dir |-> StagingDir, base |-> "inst"]

\* The files `{filepath}.*.jpg` may stand for
FrameFiles ==
    { [dir |-> StagingDir, base |-> "inst.0001.jpg"],
      [dir |-> StagingDir, base |-> "inst.0002.jpg"] }

\* os.path.basename
os_path_basename(path) == path.base

\* glob.glob(f"{filepath}.*.jpg")
Glob(filepath, fs) ==
    IF filepath = CapturePath THEN fs.exists \cap FrameFiles ELSE {}

\* max(files, key=os.path.getmtime): a latest file, any of them on a tie
LatestFiles(files, fs) ==
    { f \in files : \A g \in files : fs.mtime[g] <= fs.mtime[f] }

\* _fix_output_path without the search for the written file
_fix_output_path_AsGiven(filepath, fs) ==
    { [outcome |-> "returned", path |-> filepath] }

\* _fix_output_path(filepath): the outcomes it may have
_fix_output_path(filepath, fs) ==
    IF filepath = NoCapturePath
    THEN { [outcome |-> "returned", path |-> NoCapturePath] }
    ELSE IF filepath \notin fs.exists
         THEN IF Glob(filepath, fs) = {}
              THEN { [outcome |-> "raised", path |-> filepath] }
              ELSE { [outcome |-> "returned", path |-> f] :
                       f \in LatestFiles(Glob(filepath, fs), fs) }
         ELSE { [outcome |-> "returned", path |-> filepath] }

\* A representation of instance.data["representations"]
Representation(name, ext, files, tags, thumbnail) ==
    [name |-> name, ext |-> ext, files |-> files, stagingDir |-> StagingDir,
     thumbnail |-> thumbnail, tags |-> tags]

\* Lines 113-120
ThumbnailRepresentation(thumbnail) ==
    Representation("thumbnail", "jpg", thumbnail, <<"review", "thumbnail">>, TRUE)

\* The representations earlier extractors may have added
EarlierRepresentations ==
    { Representation("review", "mp4", "inst.mp4", <<"review">>, FALSE),
      Representation("abc", "abc", "inst.abc", <<>>, FALSE) }

\* Lines 111-121: setdefault, then append
AppendRepresentation(d, representation) ==
    [d EXCEPT !.has_representations = TRUE,
              !.representations = Append(@, representation)]

InitThumbnail ==
    /\ pc = "ready"
    /\ op = "ExtractThumbnail"
    /\ result = NoResult
    /\ LaunchIdle
    /\ settings \in [presets : {NoneVal, "dict"},
                     capture : {NoCapturePath, CapturePath}]
    /\ world \in [exists : SUBSET ({CapturePath} \cup FrameFiles),
                  mtime : [FrameFiles -> {1, 2}]]
    /\ instance \in
         { d \in [has_representations : BOOLEAN,
                  representations :
                      SeqsUpTo(EarlierRepresentations, MaxInstanceRepres)] :
             ~d.has_representations => d.representations = <<>> }
    /\ entry_instance = instance

\* ExtractThumbnail.process(instance)
ExtractThumbnail_process ==
    /\ pc = "ready"
    /\ op = "ExtractThumbnail"
    /\ IF settings.presets = NoneVal
       THEN /\ result' = Raised("AttributeError", "presets", <<>>, {"presets"},
                                NoResult.data)
            /\ instance' = instance
       ELSE \E fixed \in _fix_output_path(settings.capture, world) :
                IF fixed.outcome = "raised"
                THEN /\ result' = Raised("RuntimeError", "no_playblast",
                                         <<"capture">>, {"capture"}, NoResult.data)
                     /\ instance' = instance
                ELSE IF fixed.path = NoCapturePath
                THEN /\ result' = Raised("TypeError", "basename",
                                         <<"capture">>, {"capture"}, NoResult.data)
                     /\ instance' = instance
                ELSE /\ result' = Returned("appended", <<"capture">>,
                                           {"capture", "append"}, NoResult.data)
                     /\ instance' = AppendRepresentation(instance,
                            ThumbnailRepresentation(os_path_basename(fixed.path)))
    /\ pc' = "done"
    /\ UNCHANGED <<op, launch_vars, entry_instance, settings, world>>

NextThumbnail == ExtractThumbnail_process

SpecThumbnail == InitThumbnail /\ [][NextThumbnail]_vars

ThumbnailDone == op = "ExtractThumbnail" /\ pc = "done"

\* C18: every normal return of ExtractThumbnail.process has appended exactly
\* one representation named "thumbnail" (ext "jpg", tags review and
\* thumbnail, files the base name of an existing captured file), creating the
\* list when absent and leaving the earlier representations unchanged and in
\* order; a capture without an output path appends nothing.
C18_OneThumbnailAppended ==
    ThumbnailDone =>
        /\ result.outcome = "returned" =>
               LET reps == instance.representations
                   n == Len(entry_instance.representations)
               IN  /\ instance.has_representations
                   /\ Len(reps) = n + 1
                   /\ SubSeq(reps, 1, n) = entry_instance.representations
                   /\ reps[n + 1].name = "thumbnail"
                   /\ reps[n + 1].ext = "jpg"
                   /\ reps[n + 1].tags = <<"review", "thumbnail">>
                   /\ \E f \in world.exists : f.base = reps[n + 1].files
        /\ settings.capture = NoCapturePath =>
               /\ result.outcome = "raised"
               /\ instance = entry_instance

C18_Witness ==
    /\ ThumbnailDone
    /\ result.outcome = "returned"
    /\ ~entry_instance.has_representations
    /\ CapturePath \notin world.exists
    /\ instance.representations[1].files = "inst.0002.jpg"

====
